---- MODULE Spec2Model ----
(***************************************************************************)
(* Model of package pair (currency pair identifiers): the constructors,   *)
(* Equal/Swap and the bulk operations over lists of pairs.                 *)
(*                                                                         *)
(* A Go string is modelled as a sequence of one-character strings; the     *)
(* alphabets below are ASCII, so byte offsets and character offsets agree. *)
(* Every function of the package is pure: a behaviour is one call, drawn   *)
(* by Init, followed by the step that runs it and stores what it returned  *)
(* (a value, or the run-time panic the Go code raises).                    *)
(***************************************************************************)
EXTENDS Integers, Sequences, FiniteSets, TLC

VARIABLES call, ret, pc

vars == <<call, ret, pc>>

\* ------------------------------------------------------------------ bounds

\* longest raw currency string handed to a constructor
MaxStrLen == 4

\* longest delimiter / index token handed to a constructor
MaxTokenLen == 2

\* longest currency leg of the pairs handed to Equal and Swap
MaxLegLen == 1

\* longest list handed to a bulk operation
MaxListLen == 2

\* ---------------------------------------------------------------- alphabets

\* characters of raw strings and tokens: two letters and the two delimiters
\* NewCurrencyPairFromString looks for
Chars == {"a", "b", "_", "-"}

\* characters of currency legs: a letter in both cases and a second letter
Letters == {"a", "A", "b"}

\* all strings over alphabet S of length at most n
StrOver(S, n) == UNION {[1..k -> S] : k \in 0..n}

\* ---------------------------------------------------- Go strings and slices

\* the outcome of a call: the value returned, or a run-time panic
Ok(v) == [panicked |-> FALSE, value |-> v]

Panic == [panicked |-> TRUE, value |-> <<>>]

\* ret before the call has run
NoReturn == [panicked |-> FALSE, value |-> <<>>]

\* s[lo:hi] is legal in Go iff 0 <= lo <= hi <= len(s); otherwise it panics
SliceOK(s, lo, hi) == 0 <= lo /\ lo <= hi /\ hi <= Len(s)

\* s[lo:hi] (0-based, hi exclusive), for a legal slice
Slice(s, lo, hi) == SubSeq(s, lo + 1, hi)

\* sub occurs in s at 0-based offset i
OccursAt(s, sub, i) ==
    /\ i + Len(sub) <= Len(s)
    /\ SubSeq(s, i + 1, i + Len(sub)) = sub

\* strings.Index: the offset of the first occurrence of sub in s, or -1;
\* the empty string occurs at offset 0 of every string
Index(s, sub) ==
    IF \E i \in 0..Len(s) : OccursAt(s, sub, i)
    THEN CHOOSE i \in 0..Len(s) :
            /\ OccursAt(s, sub, i)
            /\ \A j \in 0..(i - 1) : ~OccursAt(s, sub, j)
    ELSE -1

\* strings.Contains
Contains(s, sub) == Index(s, sub) >= 0

\* strings.Split: with an empty separator, one part per character (none for
\* the empty string); otherwise the parts between successive non-overlapping
\* occurrences of sep, scanning from the left (always at least one part)
RECURSIVE Split(_, _)
Split(s, sep) ==
    IF sep = <<>>
    THEN [i \in 1..Len(s) |-> <<s[i]>>]
    ELSE LET i == Index(s, sep)
         IN  IF i < 0
             THEN <<s>>
             ELSE <<Slice(s, 0, i)>> \o Split(Slice(s, i + Len(sep), Len(s)), sep)

\* strings.ToUpper on one character of the alphabets
UpperChar(ch) ==
    CASE ch = "a" -> "A"
      [] ch = "b" -> "B"
      [] OTHER    -> ch

\* CurrencyItem.Upper
Upper(c) == [i \in 1..Len(c) |-> UpperChar(c[i])]

\* common.StringToUpper
StringToUpper(s) == [i \in 1..Len(s) |-> UpperChar(s[i])]

\* ------------------------------------------------------------ CurrencyPair

\* a CurrencyPair value
CurrencyPair(delimiter, first, second) ==
    [Delimiter |-> delimiter, FirstCurrency |-> first, SecondCurrency |-> second]

\* CurrencyPair{}
ZeroPair == CurrencyPair(<<>>, <<>>, <<>>)

\* NewCurrencyPairDelimiter storing the first part in both legs
NewCurrencyPairDelimiterSameLeg(currency, delimiter) ==
    LET result == Split(currency, delimiter)
    IN  IF Len(result) < 2
        THEN Panic
        ELSE Ok(CurrencyPair(delimiter, result[1], result[1]))

\* NewCurrencyPairDelimiter: result[0] and result[1] of the split; indexing
\* result[1] panics when the split has fewer than two parts
NewCurrencyPairDelimiter(currency, delimiter) ==
    LET result == Split(currency, delimiter)
    IN  IF Len(result) < 2
        THEN Panic
        ELSE Ok(CurrencyPair(delimiter, result[1], result[2]))

\* NewCurrencyPair: no delimiter, the legs as given
NewCurrencyPair(firstCurrency, secondCurrency) ==
    Ok(CurrencyPair(<<>>, firstCurrency, secondCurrency))

\* NewCurrencyPairFromIndex without the special case for an occurrence at 0
NewCurrencyPairFromIndexNoZeroCase(currency, index) ==
    LET i == Index(currency, index)
    IN  IF SliceOK(currency, 0, i)
        THEN NewCurrencyPair(Slice(currency, 0, i), Slice(currency, i, Len(currency)))
        ELSE Panic

\* NewCurrencyPairFromIndex: currency[0:i] panics when index does not occur
\* (i = -1)
NewCurrencyPairFromIndex(currency, index) ==
    LET i == Index(currency, index)
    IN  IF i = 0
        THEN IF SliceOK(currency, 0, Len(index))
             THEN NewCurrencyPair(Slice(currency, 0, Len(index)),
                                  Slice(currency, Len(index), Len(currency)))
             ELSE Panic
        ELSE IF SliceOK(currency, 0, i)
             THEN NewCurrencyPair(Slice(currency, 0, i), Slice(currency, i, Len(currency)))
             ELSE Panic

\* the delimiters NewCurrencyPairFromString tries, in order
delimiters == << <<"_">>, <<"-">> >>

\* the length of the first currency when no delimiter is found
FixedFirstLen == 3

\* NewCurrencyPairFromString: the first of delimiters that occurs decides;
\* without one, currency[0:3] panics when currency is shorter than 3
NewCurrencyPairFromString(currency) ==
    IF \E x \in 1..Len(delimiters) : Contains(currency, delimiters[x])
    THEN LET x == CHOOSE x \in 1..Len(delimiters) :
                    /\ Contains(currency, delimiters[x])
                    /\ \A y \in 1..(x - 1) : ~Contains(currency, delimiters[y])
         IN  NewCurrencyPairDelimiter(currency, delimiters[x])
    ELSE IF SliceOK(currency, 0, FixedFirstLen)
         THEN NewCurrencyPair(Slice(currency, 0, FixedFirstLen),
                              Slice(currency, FixedFirstLen, Len(currency)))
         ELSE Panic

\* ------------------------------------------------------- Equal and Swap

\* Equal that never accepts the swapped pairing
EqualNoSwappedMatch(c, p, exact) ==
    Ok(/\ Upper(c.FirstCurrency) = Upper(p.FirstCurrency)
       /\ Upper(c.SecondCurrency) = Upper(p.SecondCurrency))

\* CurrencyPair.Equal: the upper-cased legs agree in order, or, when exact is
\* false, in either order
Equal(c, p, exact) ==
    IF ~exact
    THEN IF \/ /\ Upper(c.FirstCurrency) = Upper(p.FirstCurrency)
               /\ Upper(c.SecondCurrency) = Upper(p.SecondCurrency)
            \/ /\ Upper(c.FirstCurrency) = Upper(p.SecondCurrency)
               /\ Upper(c.SecondCurrency) = Upper(p.FirstCurrency)
         THEN Ok(TRUE)
         ELSE Ok(FALSE)
    ELSE IF /\ Upper(c.FirstCurrency) = Upper(p.FirstCurrency)
            /\ Upper(c.SecondCurrency) = Upper(p.SecondCurrency)
         THEN Ok(TRUE)
         ELSE Ok(FALSE)

\* CurrencyPair.Swap: a copy with the legs exchanged
Swap(c) ==
    Ok([c EXCEPT !.FirstCurrency = c.SecondCurrency,
                 !.SecondCurrency = c.FirstCurrency])

\* ------------------------------------------------------- bulk operations

\* ContainsCurrency
ContainsCurrency(p, c) ==
    Ok(\/ Upper(p.FirstCurrency) = StringToUpper(c)
       \/ Upper(p.SecondCurrency) = StringToUpper(c))

\* the loop of RemovePairsByFilter with the test inverted
RECURSIVE RemoveLoopInverted(_, _, _, _)
RemoveLoopInverted(p, filter, x, pairs) ==
    IF x > Len(p)
    THEN pairs
    ELSE IF ~ContainsCurrency(p[x], filter).value
         THEN RemoveLoopInverted(p, filter, x + 1, pairs)
         ELSE RemoveLoopInverted(p, filter, x + 1, Append(pairs, p[x]))

\* RemovePairsByFilter keeping what it should drop
RemovePairsByFilterInverted(p, filter) == Ok(RemoveLoopInverted(p, filter, 1, <<>>))

\* the loop of RemovePairsByFilter from element x on, pairs being the result
\* so far
RECURSIVE RemoveLoop(_, _, _, _)
RemoveLoop(p, filter, x, pairs) ==
    IF x > Len(p)
    THEN pairs
    ELSE IF ContainsCurrency(p[x], filter).value
         THEN RemoveLoop(p, filter, x + 1, pairs)
         ELSE RemoveLoop(p, filter, x + 1, Append(pairs, p[x]))

\* RemovePairsByFilter
RemovePairsByFilter(p, filter) == Ok(RemoveLoop(p, filter, 1, <<>>))

\* the loop of FormatPairs choosing the index split before the delimiter
RECURSIVE FormatLoopIndexFirst(_, _, _, _, _)
FormatLoopIndexFirst(pairs, delimiter, index, x, result) ==
    IF x > Len(pairs)
    THEN Ok(result)
    ELSE IF pairs[x] = <<>>
         THEN FormatLoopIndexFirst(pairs, delimiter, index, x + 1, result)
         ELSE LET p == IF index # <<>>
                       THEN NewCurrencyPairFromIndex(pairs[x], index)
                       ELSE IF delimiter # <<>>
                            THEN NewCurrencyPairDelimiter(pairs[x], delimiter)
                            ELSE IF SliceOK(pairs[x], 0, 3)
                                 THEN NewCurrencyPair(Slice(pairs[x], 0, 3),
                                                      Slice(pairs[x], 3, Len(pairs[x])))
                                 ELSE Panic
              IN  IF p.panicked
                  THEN Panic
                  ELSE FormatLoopIndexFirst(pairs, delimiter, index, x + 1,
                                            Append(result, p.value))

\* FormatPairs preferring index over delimiter
FormatPairsIndexFirst(pairs, delimiter, index) ==
    FormatLoopIndexFirst(pairs, delimiter, index, 1, <<>>)

\* the loop of FormatPairs from entry x on, result being the pairs so far; a
\* panic while parsing an entry ends the call
RECURSIVE FormatLoop(_, _, _, _, _)
FormatLoop(pairs, delimiter, index, x, result) ==
    IF x > Len(pairs)
    THEN Ok(result)
    ELSE IF pairs[x] = <<>>
         THEN FormatLoop(pairs, delimiter, index, x + 1, result)
         ELSE LET p == IF delimiter # <<>>
                       THEN NewCurrencyPairDelimiter(pairs[x], delimiter)
                       ELSE IF index # <<>>
                            THEN NewCurrencyPairFromIndex(pairs[x], index)
                            ELSE IF SliceOK(pairs[x], 0, 3)
                                 THEN NewCurrencyPair(Slice(pairs[x], 0, 3),
                                                      Slice(pairs[x], 3, Len(pairs[x])))
                                 ELSE Panic
              IN  IF p.panicked
                  THEN Panic
                  ELSE FormatLoop(pairs, delimiter, index, x + 1, Append(result, p.value))

\* FormatPairs
FormatPairs(pairs, delimiter, index) == FormatLoop(pairs, delimiter, index, 1, <<>>)

\* CopyPairFormat handing back the pair it was given instead of the match
CopyPairFormatReturnsTarget(p, pairs, exact) ==
    IF \E x \in 1..Len(pairs) : Equal(p, pairs[x], exact).value
    THEN Ok(p)
    ELSE Ok(ZeroPair)

\* the loop of CopyPairFormat from element x on
RECURSIVE CopyLoop(_, _, _, _)
CopyLoop(p, pairs, exact, x) ==
    IF x > Len(pairs)
    THEN Ok(ZeroPair)
    ELSE IF Equal(p, pairs[x], exact).value
         THEN Ok(pairs[x])
         ELSE CopyLoop(p, pairs, exact, x + 1)

\* CopyPairFormat
CopyPairFormat(p, pairs, exact) == CopyLoop(p, pairs, exact, 1)

\* common.StringDataCompareUpper: needle equals, upper-cased, some element of
\* haystack
StringDataCompareUpper(haystack, needle) ==
    \E x \in 1..Len(haystack) : StringToUpper(haystack[x]) = StringToUpper(needle)

\* one loop of FindPairDifferences: the non-empty elements of scanned, from
\* element x on, that other does not hold, appended to found
RECURSIVE DiffLoop(_, _, _, _)
DiffLoop(scanned, other, x, found) ==
    IF x > Len(scanned)
    THEN found
    ELSE IF scanned[x] = <<>>
         THEN DiffLoop(scanned, other, x + 1, found)
         ELSE IF ~StringDataCompareUpper(other, scanned[x])
              THEN DiffLoop(scanned, other, x + 1, Append(found, scanned[x]))
              ELSE DiffLoop(scanned, other, x + 1, found)

\* FindPairDifferences returning the two results in the other order
FindPairDifferencesSwapped(oldPairs, newPairs) ==
    Ok(<<DiffLoop(oldPairs, newPairs, 1, <<>>), DiffLoop(newPairs, oldPairs, 1, <<>>)>>)

\* FindPairDifferences: <<newPs, removedPs>>
FindPairDifferences(oldPairs, newPairs) ==
    Ok(<<DiffLoop(newPairs, oldPairs, 1, <<>>), DiffLoop(oldPairs, newPairs, 1, <<>>)>>)

\* ------------------------------------------------- calls of the constructors

RawStrings == StrOver(Chars, MaxStrLen)

Tokens == StrOver(Chars, MaxTokenLen)

InitParse ==
    /\ \/ \E c \in RawStrings, d \in Tokens :
             call = [fn |-> "NewCurrencyPairDelimiter", currency |-> c, delimiter |-> d]
       \/ \E f \in Tokens, s \in Tokens :
             call = [fn |-> "NewCurrencyPair", firstCurrency |-> f, secondCurrency |-> s]
       \/ \E c \in RawStrings, i \in Tokens :
             call = [fn |-> "NewCurrencyPairFromIndex", currency |-> c, index |-> i]
       \/ \E c \in RawStrings :
             call = [fn |-> "NewCurrencyPairFromString", currency |-> c]
    /\ ret = NoReturn
    /\ pc = "call"

CallNewCurrencyPairDelimiter ==
    /\ pc = "call"
    /\ call.fn = "NewCurrencyPairDelimiter"
    /\ ret' = NewCurrencyPairDelimiter(call.currency, call.delimiter)
    /\ pc' = "return"
    /\ UNCHANGED call

CallNewCurrencyPair ==
    /\ pc = "call"
    /\ call.fn = "NewCurrencyPair"
    /\ ret' = NewCurrencyPair(call.firstCurrency, call.secondCurrency)
    /\ pc' = "return"
    /\ UNCHANGED call

CallNewCurrencyPairFromIndex ==
    /\ pc = "call"
    /\ call.fn = "NewCurrencyPairFromIndex"
    /\ ret' = NewCurrencyPairFromIndex(call.currency, call.index)
    /\ pc' = "return"
    /\ UNCHANGED call

CallNewCurrencyPairFromString ==
    /\ pc = "call"
    /\ call.fn = "NewCurrencyPairFromString"
    /\ ret' = NewCurrencyPairFromString(call.currency)
    /\ pc' = "return"
    /\ UNCHANGED call

NextParse ==
    \/ CallNewCurrencyPairDelimiter
    \/ CallNewCurrencyPair
    \/ CallNewCurrencyPairFromIndex
    \/ CallNewCurrencyPairFromString

SpecParse == InitParse /\ [][NextParse]_vars

\* --------------------------------------------------- calls of Equal and Swap

\* the delimiters of the pairs compared
PairDelimiters == {<<>>, <<"_">>}

\* the pairs compared: every leg over Letters up to MaxLegLen
Pairs ==
    {CurrencyPair(d, f, s) :
        d \in PairDelimiters, f \in StrOver(Letters, MaxLegLen),
        s \in StrOver(Letters, MaxLegLen)}

InitEqual ==
    /\ \/ \E c \in Pairs, p \in Pairs, e \in BOOLEAN :
             call = [fn |-> "Equal", c |-> c, p |-> p, exact |-> e]
       \/ \E c \in Pairs :
             call = [fn |-> "Swap", c |-> c]
    /\ ret = NoReturn
    /\ pc = "call"

CallEqual ==
    /\ pc = "call"
    /\ call.fn = "Equal"
    /\ ret' = Equal(call.c, call.p, call.exact)
    /\ pc' = "return"
    /\ UNCHANGED call

CallSwap ==
    /\ pc = "call"
    /\ call.fn = "Swap"
    /\ ret' = Swap(call.c)
    /\ pc' = "return"
    /\ UNCHANGED call

NextEqual == CallEqual \/ CallSwap

SpecEqual == InitEqual /\ [][NextEqual]_vars

\* ------------------------------------------- calls of the list operations

\* all lists over S of length at most MaxListLen
Lists(S) == UNION {[1..k -> S] : k \in 0..MaxListLen}

\* the legs of the pairs held in lists: empty, a letter in both cases, another
ListLegs == {<<>>, <<"a">>, <<"A">>, <<"b">>}

\* the pairs held in lists: with and without delimiter; the zero value is one
ListPairs ==
    {CurrencyPair(d, f, s) : d \in PairDelimiters, f \in ListLegs, s \in ListLegs}

\* the pairs looked up in lists
TargetPairs == {CurrencyPair(<<"-">>, f, s) : f \in ListLegs, s \in ListLegs}

\* the currency codes filtered by
Filters == ListLegs

InitList ==
    /\ \/ \E p \in ListPairs, c \in Filters :
             call = [fn |-> "ContainsCurrency", p |-> p, c |-> c]
       \/ \E p \in Lists(ListPairs), f \in Filters :
             call = [fn |-> "RemovePairsByFilter", p |-> p, filter |-> f]
       \/ \E p \in TargetPairs, ps \in Lists(ListPairs), e \in BOOLEAN :
             call = [fn |-> "CopyPairFormat", p |-> p, pairs |-> ps, exact |-> e]
    /\ ret = NoReturn
    /\ pc = "call"

CallContainsCurrency ==
    /\ pc = "call"
    /\ call.fn = "ContainsCurrency"
    /\ ret' = ContainsCurrency(call.p, call.c)
    /\ pc' = "return"
    /\ UNCHANGED call

CallRemovePairsByFilter ==
    /\ pc = "call"
    /\ call.fn = "RemovePairsByFilter"
    /\ ret' = RemovePairsByFilter(call.p, call.filter)
    /\ pc' = "return"
    /\ UNCHANGED call

CallCopyPairFormat ==
    /\ pc = "call"
    /\ call.fn = "CopyPairFormat"
    /\ ret' = CopyPairFormat(call.p, call.pairs, call.exact)
    /\ pc' = "return"
    /\ UNCHANGED call

NextList == CallContainsCurrency \/ CallRemovePairsByFilter \/ CallCopyPairFormat

SpecList == InitList /\ [][NextList]_vars

\* ------------------------------------------------------ calls of FormatPairs

\* the raw entries formatted: empty, too short for the fixed split, of
\* length 3 and 4, and with the delimiter once, in front, and twice
FormatRaws ==
    {<<>>, <<"a", "b">>, <<"a", "b", "a">>, <<"a", "b", "a", "b">>,
     <<"a", "_", "b">>, <<"_", "b">>, <<"a", "_", "b", "_", "a">>, <<"b">>}

FormatDelimiters == {<<>>, <<"_">>, <<"a">>}

FormatIndexes == {<<>>, <<"b">>, <<"_">>}

InitFormat ==
    /\ \E ps \in Lists(FormatRaws), d \in FormatDelimiters, i \in FormatIndexes :
          call = [fn |-> "FormatPairs", pairs |-> ps, delimiter |-> d, index |-> i]
    /\ ret = NoReturn
    /\ pc = "call"

CallFormatPairs ==
    /\ pc = "call"
    /\ call.fn = "FormatPairs"
    /\ ret' = FormatPairs(call.pairs, call.delimiter, call.index)
    /\ pc' = "return"
    /\ UNCHANGED call

NextFormat == CallFormatPairs

SpecFormat == InitFormat /\ [][NextFormat]_vars

\* ---------------------------------------------- calls of FindPairDifferences

\* the raw pair strings compared: empty, one letter in both cases, others
DiffStrings == {<<>>, <<"a">>, <<"A">>, <<"b">>, <<"a", "b">>, <<"A", "b">>}

InitDiff ==
    /\ \E o \in Lists(DiffStrings), n \in Lists(DiffStrings) :
          call = [fn |-> "FindPairDifferences", oldPairs |-> o, newPairs |-> n]
    /\ ret = NoReturn
    /\ pc = "call"

CallFindPairDifferences ==
    /\ pc = "call"
    /\ call.fn = "FindPairDifferences"
    /\ ret' = FindPairDifferences(call.oldPairs, call.newPairs)
    /\ pc' = "return"
    /\ UNCHANGED call

NextDiff == CallFindPairDifferences

SpecDiff == InitDiff /\ [][NextDiff]_vars

\* ------------------------------------------------------ the whole package

Init == InitParse \/ InitEqual \/ InitList \/ InitFormat \/ InitDiff

Next == NextParse \/ NextEqual \/ NextList \/ NextFormat \/ NextDiff

Spec == Init /\ [][Next]_vars

\* the call has run
Returned(fn) == pc = "return" /\ call.fn = fn

\* ------------------------------------------------ claims on the constructors

\* the constructors
Constructors ==
    {"NewCurrencyPairDelimiter", "NewCurrencyPair", "NewCurrencyPairFromIndex",
     "NewCurrencyPairFromString"}

\* C1: NewCurrencyPairDelimiter fails, returning no pair, whenever delimiter
\* does not occur in currency and whenever the split on delimiter has a number
\* of parts other than two; it returns a pair only for exactly two parts.
C1_FailsUnlessExactlyTwoParts ==
    Returned("NewCurrencyPairDelimiter") =>
        LET n == Len(Split(call.currency, call.delimiter))
        IN  /\ ~Contains(call.currency, call.delimiter) => ret.panicked
            /\ n # 2 => ret.panicked
            /\ ~ret.panicked => n = 2

\* C2: NewCurrencyPairFromString fails, returning no pair, whenever currency
\* holds neither "_" nor "-" and is shorter than 3 characters, and whenever
\* either currency segment would be empty.
C2_FailsOnShortOrEmptySegment ==
    Returned("NewCurrencyPairFromString") =>
        /\ (/\ \A x \in 1..Len(delimiters) : ~Contains(call.currency, delimiters[x])
            /\ Len(call.currency) < FixedFirstLen) => ret.panicked
        /\ ~ret.panicked =>
              /\ ret.value.FirstCurrency # <<>>
              /\ ret.value.SecondCurrency # <<>>

\* currency is first + delimiter + second with first of length k
JoinedAt(k) ==
    OccursAt(call.currency, call.delimiter, k)

FirstAt(k) == Slice(call.currency, 0, k)

SecondAt(k) == Slice(call.currency, k + Len(call.delimiter), Len(call.currency))

\* C3 as stated: whenever currency = first + delim + second with delim
\* occurring neither in first nor in second, NewCurrencyPairDelimiter returns
\* exactly (first, second, delim).
C3_ReconstructsWhenDelimiterInNeitherLeg ==
    Returned("NewCurrencyPairDelimiter") =>
        \A k \in 0..Len(call.currency) :
            (/\ JoinedAt(k)
             /\ ~Contains(FirstAt(k), call.delimiter)
             /\ ~Contains(SecondAt(k), call.delimiter))
            => ret = Ok(CurrencyPair(call.delimiter, FirstAt(k), SecondAt(k)))

\* C3 amended: whenever currency = first + delim + second, delim does not
\* occur in second and the first occurrence of delim in currency is the one
\* at the junction (so delim occurs neither in first nor across the junction),
\* NewCurrencyPairDelimiter returns exactly (first, second, delim).
C3_ReconstructsWhenJunctionIsFirstOccurrence ==
    Returned("NewCurrencyPairDelimiter") =>
        \A k \in 0..Len(call.currency) :
            (/\ JoinedAt(k)
             /\ \A j \in 0..(k - 1) : ~OccursAt(call.currency, call.delimiter, j)
             /\ ~Contains(FirstAt(k), call.delimiter)
             /\ ~Contains(SecondAt(k), call.delimiter))
            => ret = Ok(CurrencyPair(call.delimiter, FirstAt(k), SecondAt(k)))

\* a two-character delimiter joins two non-empty legs and the call returned
C3_Witness ==
    /\ Returned("NewCurrencyPairDelimiter")
    /\ Len(call.delimiter) = 2
    /\ \E k \in 1..Len(call.currency) :
          /\ JoinedAt(k)
          /\ \A j \in 0..(k - 1) : ~OccursAt(call.currency, call.delimiter, j)
          /\ ~Contains(SecondAt(k), call.delimiter)
          /\ SecondAt(k) # <<>>
          /\ ret = Ok(CurrencyPair(call.delimiter, FirstAt(k), SecondAt(k)))

\* C4: every pair a constructor returns has two non-empty legs, and its
\* delimiter, when non-empty, occurs inside neither leg.
C4_ConstructedPairsWellFormed ==
    (pc = "return" /\ call.fn \in Constructors /\ ~ret.panicked) =>
        /\ ret.value.FirstCurrency # <<>>
        /\ ret.value.SecondCurrency # <<>>
        /\ ret.value.Delimiter # <<>> =>
              /\ ~Contains(ret.value.FirstCurrency, ret.value.Delimiter)
              /\ ~Contains(ret.value.SecondCurrency, ret.value.Delimiter)

\* index occurs in currency first at offset i
FirstOccurrenceAt(i) ==
    /\ OccursAt(call.currency, call.index, i)
    /\ \A j \in 0..(i - 1) : ~OccursAt(call.currency, call.index, j)

\* C10: when index occurs in currency, NewCurrencyPairFromIndex splits at the
\* first occurrence: at offset 0 the first currency is index itself and the
\* second the rest after it; at a later offset the first currency is what
\* precedes the occurrence and the second everything from it on. The
\* delimiter is empty and first + second = currency.
C10_FromIndexSplitsAtFirstOccurrence ==
    Returned("NewCurrencyPairFromIndex") =>
        \A i \in 0..Len(call.currency) :
            FirstOccurrenceAt(i) =>
                /\ ~ret.panicked
                /\ ret.value.Delimiter = <<>>
                /\ ret.value.FirstCurrency \o ret.value.SecondCurrency = call.currency
                /\ i = 0 =>
                      /\ ret.value.FirstCurrency = call.index
                      /\ ret.value.SecondCurrency =
                            Slice(call.currency, Len(call.index), Len(call.currency))
                /\ i > 0 =>
                      /\ ret.value.FirstCurrency = Slice(call.currency, 0, i)
                      /\ ret.value.SecondCurrency = Slice(call.currency, i, Len(call.currency))

\* a non-empty index found at offset 0, with something after it
C10_Witness ==
    /\ Returned("NewCurrencyPairFromIndex")
    /\ call.index # <<>>
    /\ FirstOccurrenceAt(0)
    /\ ret.value.FirstCurrency = call.index
    /\ ret.value.SecondCurrency # <<>>

\* ------------------------------------------- claims on Equal and the lists

\* s and t are equal up to case
SameUpToCase(s, t) == Upper(s) = Upper(t)

\* C5: Equal is reflexive and symmetric in both modes, compares the legs up
\* to case and ignores the delimiter, and with exact false a pair equals its
\* own Swap.
C5_EqualReflexiveSymmetricSwap ==
    Returned("Equal") =>
        /\ ~ret.panicked
        /\ (/\ SameUpToCase(call.c.FirstCurrency, call.p.FirstCurrency)
            /\ SameUpToCase(call.c.SecondCurrency, call.p.SecondCurrency))
           => ret.value = TRUE
        /\ ret.value = Equal(call.p, call.c, call.exact).value
        /\ (~call.exact /\ call.p = Swap(call.c).value) => ret.value = TRUE
        /\ (call.exact /\ ret.value = TRUE) =>
              /\ SameUpToCase(call.c.FirstCurrency, call.p.FirstCurrency)
              /\ SameUpToCase(call.c.SecondCurrency, call.p.SecondCurrency)

\* a pair with two different legs compared, exact false, with its own Swap
C5_Witness ==
    /\ Returned("Equal")
    /\ ~call.exact
    /\ call.p = Swap(call.c).value
    /\ ~SameUpToCase(call.c.FirstCurrency, call.c.SecondCurrency)
    /\ ret.value = TRUE

\* the non-empty elements of scanned with no match up to case in other
Unmatched(scanned, other) ==
    SelectSeq(scanned,
              LAMBDA e : /\ e # <<>>
                         /\ \A x \in 1..Len(other) : ~SameUpToCase(other[x], e))

\* C6: FindPairDifferences returns as added exactly the non-empty elements of
\* newPairs, in their order, without a match up to case in oldPairs, and as
\* removed exactly the non-empty elements of oldPairs, in their order, without
\* a match in newPairs; an element in both lists up to case is in neither
\* result. The call leaves both lists as they were.
C6_DifferencesAreUnmatchedElements ==
    /\ [](Returned("FindPairDifferences") =>
            /\ ~ret.panicked
            /\ ret.value[1] = Unmatched(call.newPairs, call.oldPairs)
            /\ ret.value[2] = Unmatched(call.oldPairs, call.newPairs)
            /\ \A x \in 1..Len(call.newPairs) : \A y \in 1..Len(call.oldPairs) :
                  SameUpToCase(call.newPairs[x], call.oldPairs[y]) =>
                      /\ \A z \in 1..Len(ret.value[1]) : ret.value[1][z] # call.newPairs[x]
                      /\ \A z \in 1..Len(ret.value[2]) : ret.value[2][z] # call.oldPairs[y])
    /\ [][call.fn = "FindPairDifferences" => call' = call]_vars

\* both results non-empty, beside an element the lists share up to case only
C6_Witness ==
    /\ Returned("FindPairDifferences")
    /\ ret.value[1] # <<>>
    /\ ret.value[2] # <<>>
    /\ ret.value[1] # ret.value[2]
    /\ \E x \in 1..Len(call.newPairs) : \E y \in 1..Len(call.oldPairs) :
          /\ call.newPairs[x] # call.oldPairs[y]
          /\ SameUpToCase(call.newPairs[x], call.oldPairs[y])

\* element x of the list equals the target in the mode of the call
Matches(x) == Equal(call.pairs[x], call.p, call.exact).value

\* p has two empty legs
EmptyLegs(p) == p.FirstCurrency = <<>> /\ p.SecondCurrency = <<>>

\* C7: CopyPairFormat returns the lowest-index element of pairs that equals
\* the target in the given mode, as that element is; with no such element it
\* returns the zero-value pair; and when every element of pairs has non-empty
\* legs, a result with empty legs means that no element matches.
C7_CopyFormatFirstMatchOrZero ==
    Returned("CopyPairFormat") =>
        /\ ~ret.panicked
        /\ \A x \in 1..Len(call.pairs) :
              (Matches(x) /\ \A y \in 1..(x - 1) : ~Matches(y))
              => ret.value = call.pairs[x]
        /\ (\A x \in 1..Len(call.pairs) : ~Matches(x)) => ret.value = ZeroPair
        /\ (/\ \A x \in 1..Len(call.pairs) :
                  /\ call.pairs[x].FirstCurrency # <<>>
                  /\ call.pairs[x].SecondCurrency # <<>>
            /\ EmptyLegs(ret.value))
           => \A x \in 1..Len(call.pairs) : ~Matches(x)

\* the second element is the first match, and it is returned as it is, not
\* as the target is written
C7_Witness ==
    /\ Returned("CopyPairFormat")
    /\ Len(call.pairs) >= 2
    /\ ~Matches(1)
    /\ Matches(2)
    /\ ret.value = call.pairs[2]
    /\ ret.value.FirstCurrency # call.p.FirstCurrency
    /\ ret.value.Delimiter # call.p.Delimiter

\* neither leg of e equals code up to case
HoldsNot(e, code) ==
    /\ ~SameUpToCase(e.FirstCurrency, code)
    /\ ~SameUpToCase(e.SecondCurrency, code)

\* C8: RemovePairsByFilter returns exactly the subsequence of the elements
\* neither leg of which equals the code up to case: none kept holds the code,
\* none without it is dropped, the result is no longer than the input and
\* keeps the input order.
C8_RemoveByFilterKeepsOthersInOrder ==
    Returned("RemovePairsByFilter") =>
        /\ ~ret.panicked
        /\ ret.value = SelectSeq(call.p, LAMBDA e : HoldsNot(e, call.filter))
        /\ Len(ret.value) <= Len(call.p)
        /\ \A x \in 1..Len(ret.value) : HoldsNot(ret.value[x], call.filter)
        /\ \A x \in 1..Len(call.p) :
              HoldsNot(call.p[x], call.filter) =>
                  \E y \in 1..Len(ret.value) : ret.value[y] = call.p[x]

\* an element holding the code, up to case only, dropped between or beside
\* one that is kept
C8_Witness ==
    /\ Returned("RemovePairsByFilter")
    /\ Len(call.p) = 2
    /\ Len(ret.value) = 1
    /\ \E x \in 1..2 :
          /\ ~HoldsNot(call.p[x], call.filter)
          /\ call.p[x].FirstCurrency # call.filter
          /\ call.p[x].SecondCurrency # call.filter

\* the non-empty entries of the call
Entries == SelectSeq(call.pairs, LAMBDA e : e # <<>>)

\* the pair FormatPairs is to make of one entry
FormatOne(e) ==
    IF call.delimiter # <<>>
    THEN NewCurrencyPairDelimiter(e, call.delimiter)
    ELSE IF call.index # <<>>
         THEN NewCurrencyPairFromIndex(e, call.index)
         ELSE IF Len(e) >= 3
              THEN Ok(CurrencyPair(<<>>, SubSeq(e, 1, 3), SubSeq(e, 4, Len(e))))
              ELSE Panic

\* C9: when every non-empty entry parses, FormatPairs returns one pair per
\* non-empty entry, in input order, and nothing for an empty entry: the pair
\* NewCurrencyPairDelimiter makes when delimiter is non-empty (also when index
\* is), else the pair NewCurrencyPairFromIndex makes when index is non-empty,
\* else first = entry[0:3], second = entry[3:] without delimiter.
C9_FormatPairsOnePerNonEmptyEntry ==
    (/\ Returned("FormatPairs")
     /\ \A x \in 1..Len(Entries) : ~FormatOne(Entries[x]).panicked)
    => /\ ~ret.panicked
       /\ Len(ret.value) = Len(Entries)
       /\ \A x \in 1..Len(Entries) : ret.value[x] = FormatOne(Entries[x]).value

\* delimiter and index both non-empty, an empty entry skipped in front of a
\* non-empty one, and the pair split at the delimiter
C9_Witness ==
    /\ Returned("FormatPairs")
    /\ call.delimiter # <<>>
    /\ call.index # <<>>
    /\ Len(call.pairs) = 2
    /\ call.pairs[1] = <<>>
    /\ ~ret.panicked
    /\ Len(ret.value) = 1
    /\ ret.value[1].Delimiter = call.delimiter
    /\ ret.value[1] # NewCurrencyPairFromIndex(call.pairs[2], call.index).value

====
